---- MODULE Spec2Model ----
(***************************************************************************)
(* Model of the JSONPath engine of src/src/js/jsonpath.js: the compiler    *)
(* (#compile and its helpers), the evaluator (#evaluate, #getMatches,      *)
(* #getDescendants, #evaluateExpr) and resolvePath, driven through the     *)
(* public methods of one JSONPath instance.                                *)
(*                                                                         *)
(* A character is a one-character string, a query a sequence of            *)
(* characters, and offsets into a query are 0-based as in the source.      *)
(***************************************************************************)
EXTENDS Integers, Sequences, FiniteSets, TLC

(***************************************************************************)
(* JavaScript values.  Every value is a record of one shape: t is the      *)
(* type, n the number (or 0/1 of a boolean), s the characters of a string, *)
(* e the entries <<[k, v], ...>> of an object in key-enumeration order or   *)
(* of an array in index order.  "undef" is undefined; "throw" stands for   *)
(* a TypeError raised while computing the value.                           *)
(***************************************************************************)
Num(n) == [t |-> "num", n |-> n, s |-> <<>>, e |-> <<>>]
Str(s) == [t |-> "str", n |-> 0, s |-> s, e |-> <<>>]
Bool(b) == [t |-> "bool", n |-> IF b THEN 1 ELSE 0, s |-> <<>>, e |-> <<>>]
Null == [t |-> "null", n |-> 0, s |-> <<>>, e |-> <<>>]
Undef == [t |-> "undef", n |-> 0, s |-> <<>>, e |-> <<>>]
Thrown == [t |-> "throw", n |-> 0, s |-> <<>>, e |-> <<>>]
Obj(entries) == [t |-> "obj", n |-> 0, s |-> <<>>, e |-> entries]
Arr(vs) == [t |-> "arr", n |-> 0, s |-> <<>>,
            e |-> [i \in 1..Len(vs) |-> [k |-> <<>>, v |-> vs[i]]]]
KV(k, v) == [k |-> k, v |-> v]

IsContainer(v) == v.t \in {"obj", "arr"}

(***************************************************************************)
(* Path elements: a string key or an integer index.  PUndef is the key of  *)
(* the zero-length path (resolvePath returns no key for it), PThrow marks  *)
(* a result list whose computation raised.                                 *)
(***************************************************************************)
PK(s) == [t |-> "s", s |-> s, n |-> 0]
PI(n) == [t |-> "n", s |-> <<>>, n |-> n]
PUndef == [t |-> "u", s |-> <<>>, n |-> 0]
PThrow == [t |-> "x", s |-> <<>>, n |-> 0]
ThrowPath == <<PThrow>>
HasThrow(list) == \E i \in 1..Len(list) : list[i] = ThrowPath

(***************************************************************************)
(* Characters and numbers.                                                 *)
(***************************************************************************)
Digits == <<"0", "1", "2", "3", "4", "5", "6", "7", "8", "9">>
IsDigit(c) == \E d \in 1..10 : Digits[d] = c
DigitVal(c) == (CHOOSE d \in 1..10 : Digits[d] = c) - 1
Letters == {"a", "b", "c", "d", "e", "f", "g", "h", "i", "j", "k", "l", "m",
            "n", "o", "p", "q", "r", "s", "t", "u", "v", "w", "x", "y", "z",
            "A", "B", "C", "D", "E", "F", "G", "H", "I", "J", "K", "L", "M",
            "N", "O", "P", "Q", "R", "S", "T", "U", "V", "W", "X", "Y", "Z"}
IsIdentStart(c) == c \in Letters \/ c = "_"
IsWord(c) == IsIdentStart(c) \/ IsDigit(c)

RECURSIVE NatToChars(_)
NatToChars(n) ==
    IF n < 10 THEN <<Digits[n + 1]>>
    ELSE Append(NatToChars(n \div 10), Digits[(n % 10) + 1])
IntToChars(n) == IF n < 0 THEN <<"-">> \o NatToChars(-n) ELSE NatToChars(n)

RECURSIVE CharsToNat(_)
CharsToNat(s) ==
    IF Len(s) = 0 THEN 0
    ELSE 10 * CharsToNat(SubSeq(s, 1, Len(s) - 1)) + DigitVal(s[Len(s)])
AllDigits(s) == \A i \in 1..Len(s) : IsDigit(s[i])
\* The canonical text of an array index: digits, no sign, no leading zero.
IsCanonIdx(s) == Len(s) > 0 /\ AllDigits(s) /\ (Len(s) > 1 => s[1] # "0")

(***************************************************************************)
(* Property access o[k] and Object.hasOwn(o, k), for a path element k.     *)
(***************************************************************************)
KeyChars(pe) == IF pe.t = "n" THEN IntToChars(pe.n) ELSE pe.s
\* the slot of an array element that delete removed: the index is no longer
\* an own property and reads as undefined, the length is unchanged
Hole == [k |-> <<"-">>, v |-> Undef]
LengthKey == <<"l", "e", "n", "g", "t", "h">>
EntryIdx(o, ks) ==
    IF \E i \in 1..Len(o.e) : o.e[i].k = ks
    THEN CHOOSE i \in 1..Len(o.e) : o.e[i].k = ks
    ELSE 0
GetProp(o, pe) ==
    LET ks == KeyChars(pe) IN
    IF o.t \in {"null", "undef", "throw"} \/ pe.t \in {"u", "x"} THEN
        IF o.t \in {"null", "undef", "throw"} THEN Thrown ELSE Undef
    ELSE IF o.t = "obj" THEN
        IF EntryIdx(o, ks) = 0 THEN Undef ELSE o.e[EntryIdx(o, ks)].v
    ELSE IF o.t = "arr" THEN
        IF ks = LengthKey THEN Num(Len(o.e))
        ELSE IF IsCanonIdx(ks) /\ CharsToNat(ks) < Len(o.e)
             THEN o.e[CharsToNat(ks) + 1].v
        ELSE Undef
    ELSE IF o.t = "str" THEN
        IF ks = LengthKey THEN Num(Len(o.s))
        ELSE IF IsCanonIdx(ks) /\ CharsToNat(ks) < Len(o.s)
             THEN Str(<<o.s[CharsToNat(ks) + 1]>>)
        ELSE Undef
    ELSE Undef
\* o instanceof Object && Object.hasOwn(o, k)
HasOwn(o, pe) ==
    LET ks == KeyChars(pe) IN
    IF pe.t \in {"u", "x"} THEN FALSE
    ELSE IF o.t = "obj" THEN EntryIdx(o, ks) # 0
    ELSE IF o.t = "arr" THEN
        ks = LengthKey
        \/ (IsCanonIdx(ks) /\ CharsToNat(ks) < Len(o.e)
              /\ o.e[CharsToNat(ks) + 1] # Hole)
    ELSE FALSE

(***************************************************************************)
(* resolvePath, on this.root = rt.                                         *)
(***************************************************************************)
RECURSIVE Walk(_, _, _, _)
Walk(obj, path, i, n) ==
    IF i > n THEN obj ELSE Walk(GetProp(obj, path[i]), path, i + 1, n)
resolvePath(rt, path) ==
    IF Len(path) = 0 THEN [obj |-> Undef, key |-> PUndef, value |-> rt]
    ELSE LET obj == Walk(rt, path, 1, Len(path) - 1)
             key == path[Len(path)]
         IN [obj |-> obj, key |-> key, value |-> GetProp(obj, key)]

(***************************************************************************)
(* The JavaScript operators #evaluateExpr applies: ===, the relational     *)
(* comparison (ToPrimitive, then strings by code unit or numbers by        *)
(* ToNumber, NaN comparing false) and template-literal string coercion.    *)
(***************************************************************************)
AsciiOrder == <<" ", "!", "\"", "#", "$", "'", "(", ")", "*", ",", "-", ".",
                "0", "1", "2", "3", "4", "5", "6", "7", "8", "9",
                "<", "=", ">", "?", "@",
                "A", "B", "C", "D", "E", "F", "G", "H", "I", "J", "K", "L", "M",
                "N", "O", "P", "Q", "R", "S", "T", "U", "V", "W", "X", "Y", "Z",
                "[", "\\", "]", "^", "_",
                "a", "b", "c", "d", "e", "f", "g", "h", "i", "j", "k", "l", "m",
                "n", "o", "p", "q", "r", "s", "t", "u", "v", "w", "x", "y", "z">>
CharCode(c) == CHOOSE i \in 1..Len(AsciiOrder) : AsciiOrder[i] = c

StrictEq(a, b) ==
    /\ a.t = b.t
    /\ a.t \in {"num", "str", "bool", "null", "undef"}
    /\ a.n = b.n
    /\ a.s = b.s

RECURSIVE ToStringJS(_)
RECURSIVE JoinElems(_, _)
JoinElems(es, i) ==
    IF i > Len(es) THEN <<>>
    ELSE (IF i > 1 THEN <<",">> ELSE <<>>)
         \o (IF es[i].v.t \in {"null", "undef"} THEN <<>> ELSE ToStringJS(es[i].v))
         \o JoinElems(es, i + 1)
ToStringJS(v) ==
    CASE v.t = "num" -> IntToChars(v.n)
      [] v.t = "str" -> v.s
      [] v.t = "bool" -> IF v.n = 1 THEN <<"t", "r", "u", "e">>
                         ELSE <<"f", "a", "l", "s", "e">>
      [] v.t = "null" -> <<"n", "u", "l", "l">>
      [] v.t = "obj" -> <<"[", "o", "b", "j", "e", "c", "t", " ",
                          "O", "b", "j", "e", "c", "t", "]">>
      [] v.t = "arr" -> JoinElems(v.e, 1)
      [] OTHER -> <<"u", "n", "d", "e", "f", "i", "n", "e", "d">>

ToPrimitive(v) == IF IsContainer(v) THEN Str(ToStringJS(v)) ELSE v

RECURSIVE TrimSpaces(_)
TrimSpaces(s) ==
    IF Len(s) > 0 /\ s[1] = " " THEN TrimSpaces(Tail(s))
    ELSE IF Len(s) > 0 /\ s[Len(s)] = " " THEN TrimSpaces(SubSeq(s, 1, Len(s) - 1))
    ELSE s
\* ToNumber of a primitive: [nan, n].  Strings are decimal integers or NaN.
ToNumber(v) ==
    CASE v.t \in {"num", "bool"} -> [nan |-> FALSE, n |-> v.n]
      [] v.t = "null" -> [nan |-> FALSE, n |-> 0]
      [] v.t = "str" ->
            LET u == TrimSpaces(v.s)
                neg == Len(u) > 0 /\ u[1] = "-"
                d == IF Len(u) > 0 /\ u[1] \in {"-", "+"} THEN Tail(u) ELSE u
            IN IF Len(u) = 0 THEN [nan |-> FALSE, n |-> 0]
               ELSE IF Len(d) > 0 /\ AllDigits(d)
                    THEN [nan |-> FALSE, n |-> IF neg THEN -CharsToNat(d) ELSE CharsToNat(d)]
               ELSE [nan |-> TRUE, n |-> 0]
      [] OTHER -> [nan |-> TRUE, n |-> 0]

RECURSIVE LexLess(_, _)
LexLess(a, b) ==
    IF Len(b) = 0 THEN FALSE
    ELSE IF Len(a) = 0 THEN TRUE
    ELSE IF a[1] # b[1] THEN CharCode(a[1]) < CharCode(b[1])
    ELSE LexLess(Tail(a), Tail(b))

\* a < b as "t" (true), "f" (false) or "u" (undefined: a NaN operand).
RelLess(a, b) ==
    LET pa == ToPrimitive(a)
        pb == ToPrimitive(b)
    IN IF pa.t = "str" /\ pb.t = "str"
       THEN (IF LexLess(pa.s, pb.s) THEN "t" ELSE "f")
       ELSE IF ToNumber(pa).nan \/ ToNumber(pb).nan THEN "u"
       ELSE IF ToNumber(pa).n < ToNumber(pb).n THEN "t" ELSE "f"
JsLt(a, b) == RelLess(a, b) = "t"
JsGt(a, b) == RelLess(b, a) = "t"
JsLe(a, b) == RelLess(b, a) = "f"
JsGe(a, b) == RelLess(a, b) = "f"

IsPrefixAt(s, p, at) ==
    /\ at + Len(p) <= Len(s)
    /\ \A i \in 1..Len(p) : s[at + i] = p[i]
StartsWith(s, p) == IsPrefixAt(s, p, 0)
EndsWith(s, p) == Len(p) <= Len(s) /\ IsPrefixAt(s, p, Len(s) - Len(p))
Includes(s, p) == \E at \in 0..Len(s) : IsPrefixAt(s, p, at)

(***************************************************************************)
(* Steps of a compiled plan.  kt says what k holds: "none" (no k), "str"   *)
(* (ks) or "int" (kn).  steps is the nested plan (<<>>: none), op the      *)
(* operator's characters (<<>>: undefined).                                *)
(***************************************************************************)
UNDEFINED == 0
ROOT == 1
CURRENT == 2
CHILDREN == 3
DESCENDANTS == 4
\* this.CHILDREN, a property the class does not define: undefined.
MvNotDefined == 9

MkStep(mv) == [mv |-> mv, kt |-> "none", ks |-> <<>>, kn |-> 0, steps |-> <<>>,
               op |-> <<>>, rval |-> Undef, not |-> FALSE]
StrStep(mv, s) == [MkStep(mv) EXCEPT !.kt = "str", !.ks = s]
IntStep(mv, n) == [MkStep(mv) EXCEPT !.kt = "int", !.kn = n]
PlanStep(mv, steps) == [MkStep(mv) EXCEPT !.steps = steps]
\* if ( k ): a non-empty string or a non-zero number.
KTruthy(step) ==
    \/ step.kt = "str" /\ Len(step.ks) > 0
    \/ step.kt = "int" /\ step.kn # 0
StepKey(step) == IF step.kt = "int" THEN PI(step.kn) ELSE PK(step.ks)
Star == <<"*">>

(***************************************************************************)
(* #getDescendants: the iterator's stack of {obj, keys} frames (pos is the *)
(* position of the keys iterator) and its path, run to exhaustion; the     *)
(* result is the sequence of values next() yields.                         *)
(***************************************************************************)
NumKeys(o) == Len(o.e)
KeyAt(o, pos) == IF o.t = "arr" THEN PI(pos - 1) ELSE PK(o.e[pos].k)
\* a slip: this.path.push(entry.value) for this.path[n-1] = entry.value
SetAtPush(path, n, x) == Append(path, x)
\* path[n-1] = x on a JavaScript array (1-based here: position n).
SetAt(path, n, x) ==
    IF Len(path) >= n THEN [path EXCEPT ![n] = x]
    ELSE path \o [j \in 1..(n - 1 - Len(path)) |-> PUndef] \o <<x>>
Pop(seq) == IF Len(seq) = 0 THEN seq ELSE SubSeq(seq, 1, Len(seq) - 1)

RECURSIVE IterNext(_, _, _, _)
IterNext(stack, path, recursive, acc) ==
    LET n == Len(stack) IN
    IF n = 0 THEN acc
    ELSE LET details == stack[n] IN
         IF details.pos > NumKeys(details.obj)
         THEN IterNext(Pop(stack), Pop(path), recursive, acc)
         ELSE LET key == KeyAt(details.obj, details.pos)
                  path1 == SetAt(path, n, key)
                  stack1 == [stack EXCEPT ![n].pos = @ + 1]
                  v == GetProp(details.obj, key)
                  stack2 == IF recursive /\ IsContainer(v)
                            THEN Append(stack1, [obj |-> v, pos |-> 1])
                            ELSE stack1
              IN IterNext(stack2, path1, recursive,
                          Append(acc, [obj |-> details.obj, key |-> key,
                                       path |-> path1]))
getDescendants(v, recursive) ==
    IterNext(IF IsContainer(v) THEN <<[obj |-> v, pos |-> 1]>> ELSE <<>>,
             <<>>, recursive, <<>>)

(***************************************************************************)
(* #evaluateExpr: the list of paths it pushes (none or one), or ThrowPath  *)
(* when o[k] raises.                                                       *)
(***************************************************************************)
Outcome(step, v, hasOwn) ==
    CASE step.op = <<"=", "=">> -> StrictEq(v, step.rval)
      [] step.op = <<"!", "=">> -> ~StrictEq(v, step.rval)
      [] step.op = <<"<">> -> JsLt(v, step.rval)
      [] step.op = <<"<", "=">> -> JsLe(v, step.rval)
      [] step.op = <<">">> -> JsGt(v, step.rval)
      [] step.op = <<">", "=">> -> JsGe(v, step.rval)
      [] step.op = <<"^", "=">> -> StartsWith(ToStringJS(v), ToStringJS(step.rval))
      [] step.op = <<"$", "=">> -> EndsWith(ToStringJS(v), ToStringJS(step.rval))
      [] step.op = <<"*", "=">> -> Includes(ToStringJS(v), ToStringJS(step.rval))
      [] OTHER -> hasOwn
\* a slip: the early return for an operator on a key the container does
\* not own is missing
evaluateExprNoOwnCheck(rt, step, path) ==
    LET r == resolvePath(rt, path)
        hasOwn == HasOwn(r.obj, r.key)
        v == IF Len(path) = 0 THEN Thrown ELSE r.value
    IN IF v.t = "throw" THEN <<ThrowPath>>
       ELSE IF Outcome(step, v, hasOwn) = step.not THEN <<>>
       ELSE <<path>>
evaluateExpr(rt, step, path) ==
    LET r == resolvePath(rt, path)
        hasOwn == HasOwn(r.obj, r.key)
        v == IF Len(path) = 0 THEN Thrown ELSE r.value
    IN IF v.t = "throw" THEN <<ThrowPath>>
       ELSE IF step.op # <<>> /\ ~hasOwn THEN <<>>
       ELSE IF Outcome(step, v, hasOwn) = step.not THEN <<>>
       ELSE <<path>>

(***************************************************************************)
(* #evaluate and #getMatches.                                              *)
(***************************************************************************)
RECURSIVE evaluateSteps(_, _, _)
RECURSIVE EvalFrom(_, _, _, _, _)
RECURSIVE getMatches(_, _, _)
RECURSIVE MatchOne(_, _, _)
RECURSIVE PlanWalk(_, _, _, _, _)

\* for ( const { path } of entries ) of the wildcard branch
RECURSIVE WildAll(_, _, _, _, _)
WildAll(rt, step, pathin, entries, i) ==
    IF i > Len(entries) THEN <<>>
    ELSE evaluateExpr(rt, step, pathin \o entries[i].path)
         \o WildAll(rt, step, pathin, entries, i + 1)

\* the recursive walk of the integer / literal key branch
RECURSIVE KeyWalk(_, _, _, _, _)
KeyWalk(rt, step, pathin, entries, i) ==
    IF i > Len(entries) THEN <<>>
    ELSE LET w == GetProp(entries[i].obj, entries[i].key)
             here == IF IsContainer(w) /\ HasOwn(w, StepKey(step))
                     THEN evaluateExpr(rt, step,
                              pathin \o entries[i].path \o <<StepKey(step)>>)
                     ELSE <<>>
         IN here \o KeyWalk(rt, step, pathin, entries, i + 1)

\* const r = this.#evaluate(steps, x); if ( r.length !== 0 ) listout.push(x)
Keep(rt, step, x) ==
    LET r == evaluateSteps(rt, step.steps, x) IN
    IF HasThrow(r) THEN <<ThrowPath>>
    ELSE IF Len(r) # 0 THEN <<x>> ELSE <<>>

\* the walk of the nested-plan branch
PlanWalk(rt, step, pathin, entries, i) ==
    IF i > Len(entries) THEN <<>>
    ELSE LET w == GetProp(entries[i].obj, entries[i].key)
             here == IF w.t = "arr" THEN <<>>
                     ELSE Keep(rt, step, pathin \o entries[i].path)
         IN here \o PlanWalk(rt, step, pathin, entries, i + 1)

\* the body of the loop of #getMatches, for one pathin
MatchOne(rt, pathin, step) ==
    LET v == resolvePath(rt, pathin).value
        recursive == step.mv = DESCENDANTS
    IN
    IF pathin = ThrowPath \/ v.t = "throw" THEN <<ThrowPath>>
    ELSE IF v.t \in {"null", "undef"} THEN <<>>
    ELSE IF KTruthy(step) THEN
        IF step.kt = "str" /\ step.ks = Star
        THEN WildAll(rt, step, pathin, getDescendants(v, recursive), 1)
        ELSE IF step.kt = "int" /\ v.t # "arr" THEN <<>>
        ELSE IF step.kt = "int"
                /\ LET i == IF step.kn >= 0 THEN step.kn ELSE Len(v.e) + step.kn
                   IN i < 0 \/ i >= Len(v.e)
             THEN <<>>
        ELSE LET first ==
                    IF step.kt = "int"
                    THEN evaluateExpr(rt, step, pathin \o
                            <<PI(IF step.kn >= 0 THEN step.kn ELSE Len(v.e) + step.kn)>>)
                    ELSE evaluateExpr(rt, step, pathin \o <<PK(step.ks)>>)
             IN IF ~recursive THEN first
                ELSE first \o KeyWalk(rt, step, pathin, getDescendants(v, recursive), 1)
    ELSE IF Len(step.steps) > 0 THEN
        LET self == IF v.t # "arr" THEN Keep(rt, step, pathin) ELSE <<>>
        IN IF v.t # "arr" /\ ~recursive THEN self
           ELSE self \o PlanWalk(rt, step, pathin, getDescendants(v, recursive), 1)
    ELSE <<>>

getMatches(rt, listin, step) ==
    IF Len(listin) = 0 THEN <<>>
    ELSE MatchOne(rt, Head(listin), step) \o getMatches(rt, Tail(listin), step)

EvalFrom(rt, steps, i, pathin, resultset) ==
    IF HasThrow(resultset) THEN <<ThrowPath>>
    ELSE IF i > Len(steps) THEN resultset
    ELSE LET step == steps[i]
             rs == CASE step.mv = ROOT -> << <<>> >>
                     [] step.mv = CURRENT -> <<pathin>>
                     [] step.mv \in {CHILDREN, DESCENDANTS} ->
                            getMatches(rt, resultset, step)
                     [] OTHER -> resultset
         IN EvalFrom(rt, steps, i + 1, pathin, rs)
evaluateSteps(rt, steps, pathin) == EvalFrom(rt, steps, 1, pathin, <<>>)

(***************************************************************************)
(* The compiler.  A (sub)compile yields st = "ok" with its steps and the   *)
(* offset reached, "undef" (return without a value) or "throw" (a          *)
(* TypeError propagating to the caller).                                   *)
(***************************************************************************)
CharAt(q, i) == IF i >= 0 /\ i < Len(q) THEN q[i + 1] ELSE ""
StartsWithAt(q, p, i) == i >= 0 /\ IsPrefixAt(q, p, i)
Slice(q, a, b) == SubSeq(q, a + 1, b)
CFail == [st |-> "undef", steps |-> <<>>, i |-> 0]
CRaise == [st |-> "throw", steps |-> <<>>, i |-> 0]
COk(steps, i) == [st |-> "ok", steps |-> steps, i |-> i]

\* #reUnquotedIdentifier = /^[A-Za-z_][\w]*|^\*/ ; <<>> for no match
RECURSIVE WordEnd(_, _)
WordEnd(q, i) == IF i < Len(q) /\ IsWord(CharAt(q, i)) THEN WordEnd(q, i + 1) ELSE i
consumeUnquotedIdentifier(q, i) ==
    IF IsIdentStart(CharAt(q, i)) THEN Slice(q, i, WordEnd(q, i + 1))
    ELSE IF CharAt(q, i) = "*" THEN Star
    ELSE <<>>

\* #consumeQuotedIdentifier: its loop, from the state (beg, end, parts).
\* A backslash with a character after it reaches query.chatCodeAt(end+1),
\* a method strings do not have: the call raises a TypeError.
RECURSIVE QuotedLoop(_, _, _, _)
QuotedLoop(q, beg, end, parts) ==
    IF end = Len(q) THEN [st |-> "undef", s |-> <<>>, i |-> 0]
    ELSE IF CharAt(q, end) = "'" THEN
        IF ~StartsWithAt(q, <<"'", "]">>, end)
        THEN [st |-> "undef", s |-> <<>>, i |-> 0]
        ELSE [st |-> "ok", s |-> parts \o Slice(q, beg, end), i |-> end + 2]
    ELSE IF CharAt(q, end) = "\\" /\ end + 1 < Len(q)
        THEN [st |-> "throw", s |-> <<>>, i |-> 0]
    ELSE QuotedLoop(q, beg, end + 1, parts)
consumeQuotedIdentifier(q, i) == QuotedLoop(q, i, i, <<>>)

\* JSON.parse on the text of a comparison literal: [ok, v].  Decoded here:
\* null, true, false, integers, strings without escapes, [] and {}.
JsonSpace == {" ", "\t", "\n", "\r"}
RECURSIVE JsonTrim(_)
JsonTrim(s) ==
    IF Len(s) > 0 /\ s[1] \in JsonSpace THEN JsonTrim(Tail(s))
    ELSE IF Len(s) > 0 /\ s[Len(s)] \in JsonSpace THEN JsonTrim(SubSeq(s, 1, Len(s) - 1))
    ELSE s
IsJsonInt(u) ==
    LET d == IF Len(u) > 0 /\ u[1] = "-" THEN Tail(u) ELSE u
    IN IsCanonIdx(d)
JSONParse(text) ==
    LET u == JsonTrim(text) IN
    IF u = <<"n", "u", "l", "l">> THEN [ok |-> TRUE, v |-> Null]
    ELSE IF u = <<"t", "r", "u", "e">> THEN [ok |-> TRUE, v |-> Bool(TRUE)]
    ELSE IF u = <<"f", "a", "l", "s", "e">> THEN [ok |-> TRUE, v |-> Bool(FALSE)]
    ELSE IF u = <<"[", "]">> THEN [ok |-> TRUE, v |-> Arr(<<>>)]
    ELSE IF u = <<"{", "}">> THEN [ok |-> TRUE, v |-> Obj(<<>>)]
    ELSE IF IsJsonInt(u) THEN
        [ok |-> TRUE, v |-> Num(IF u[1] = "-" THEN -CharsToNat(Tail(u)) ELSE CharsToNat(u))]
    ELSE IF Len(u) >= 2 /\ u[1] = "\"" /\ u[Len(u)] = "\""
            /\ \A j \in 2..(Len(u) - 1) : u[j] \notin {"\"", "\\", "\n", "\r", "\t"}
        THEN [ok |-> TRUE, v |-> Str(SubSeq(u, 2, Len(u) - 1))]
    ELSE [ok |-> FALSE, v |-> Undef]

\* #reExpr = /^([!=^$*]=|[<>]=?)(.+?)\)\]/ at offset i: the offset of the
\* ")]" that ends the shortest (.+?) starting at from, or -1.
LineEnd == {"\n", "\r"}
ExprCloses(q, from) ==
    {p \in (from + 1)..(Len(q) - 2) :
        /\ StartsWithAt(q, <<")", "]">>, p)
        /\ \A j \in from..(p - 1) : CharAt(q, j) \notin LineEnd}
MinOf(S) == CHOOSE x \in S : \A y \in S : x <= y
ExprClose(q, from) == IF ExprCloses(q, from) = {} THEN -1 ELSE MinOf(ExprCloses(q, from))
\* the match: [ok, oplen, close]; match[1] = q[i .. i+oplen), match[2] = q[i+oplen .. close)
reExpr(q, i) ==
    LET c1 == CharAt(q, i)
        c2 == CharAt(q, i + 1)
        no == [ok |-> FALSE, oplen |-> 0, close |-> 0]
    IN IF c1 \in {"!", "=", "^", "$", "*"} /\ c2 = "=" THEN
           IF ExprClose(q, i + 2) >= 0
           THEN [ok |-> TRUE, oplen |-> 2, close |-> ExprClose(q, i + 2)] ELSE no
       ELSE IF c1 \in {"<", ">"} THEN
           IF c2 = "=" /\ ExprClose(q, i + 2) >= 0
           THEN [ok |-> TRUE, oplen |-> 2, close |-> ExprClose(q, i + 2)]
           ELSE IF ExprClose(q, i + 1) >= 0
           THEN [ok |-> TRUE, oplen |-> 1, close |-> ExprClose(q, i + 1)] ELSE no
       ELSE no
\* a slip: step.op assigned before the JSON.parse that can raise
compileExprOpFirst(step, q, i) ==
    LET m == reExpr(q, i) IN
    IF ~m.ok THEN [step |-> step, i |-> i]
    ELSE LET lit == JSONParse(Slice(q, i + m.oplen, m.close)) IN
         [step |-> IF lit.ok
                   THEN [step EXCEPT !.rval = lit.v, !.op = Slice(q, i, i + m.oplen)]
                   ELSE [step EXCEPT !.op = Slice(q, i, i + m.oplen)],
          i |-> i + m.oplen + (m.close - (i + m.oplen))]
\* #compileExpr: the step as it leaves it, and the offset returned
compileExpr(step, q, i) ==
    LET m == reExpr(q, i) IN
    IF ~m.ok THEN [step |-> step, i |-> i]
    ELSE LET lit == JSONParse(Slice(q, i + m.oplen, m.close)) IN
         [step |-> IF lit.ok
                   THEN [step EXCEPT !.rval = lit.v, !.op = Slice(q, i, i + m.oplen)]
                   ELSE step,
          i |-> i + m.oplen + (m.close - (i + m.oplen))]

\* #reIndice = /^\[-?\d+\]/ at offset i: the length of the match, or 0
RECURSIVE DigitsEnd(_, _)
DigitsEnd(q, i) == IF i < Len(q) /\ IsDigit(CharAt(q, i)) THEN DigitsEnd(q, i + 1) ELSE i
reIndice(q, i) ==
    LET d == IF CharAt(q, i + 1) = "-" THEN i + 2 ELSE i + 1
        e == DigitsEnd(q, d)
    IN IF CharAt(q, i) = "[" /\ e > d /\ CharAt(q, e) = "]" THEN e + 1 - i ELSE 0
\* parseInt(query.slice(i), 10), where reIndice matched at i-1
parseInt(q, i) ==
    IF CharAt(q, i) = "-" THEN -CharsToNat(Slice(q, i + 1, DigitsEnd(q, i + 1)))
    ELSE CharsToNat(Slice(q, i, DigitsEnd(q, i)))

\* mv ||= this.#CHILDREN
OrChildren(mv) == IF mv = UNDEFINED THEN CHILDREN ELSE mv
\* mv ||= this.CHILDREN, of the bracket index: the class has no such property
OrPublicChildren(mv) == IF mv = UNDEFINED THEN MvNotDefined ELSE mv

\* if ( steps.length <= 1 ) { return; } return { steps, i };
Finish(steps, i) == IF Len(steps) <= 1 THEN CFail ELSE COk(steps, i)

RECURSIVE compileAt(_, _)
RECURSIVE CompileLoop(_, _, _, _)
\* the loop of #compile, from the state (i, mv, steps)
CompileLoop(q, i, mv, steps) ==
    IF i = Len(q) THEN Finish(steps, i)
    ELSE IF CharAt(q, i) = " " THEN CompileLoop(q, i + 1, mv, steps)
    ELSE IF CharAt(q, i) = "." THEN
        IF mv # UNDEFINED THEN CFail
        ELSE IF StartsWithAt(q, <<".", ".">>, i)
             THEN CompileLoop(q, i + 2, DESCENDANTS, steps)
        ELSE CompileLoop(q, i + 1, CHILDREN, steps)
    ELSE IF CharAt(q, i) # "[" THEN
        IF mv = UNDEFINED THEN
            LET r == compileExpr(steps[Len(steps)], q, i)
            IN Finish([steps EXCEPT ![Len(steps)] = r.step], r.i)
        ELSE LET s == consumeUnquotedIdentifier(q, i) IN
             IF s = <<>> THEN CFail
             ELSE CompileLoop(q, i + Len(s), UNDEFINED, Append(steps, StrStep(mv, s)))
    ELSE IF StartsWithAt(q, <<"[", "*", "]">>, i) THEN
        CompileLoop(q, i + 3, UNDEFINED, Append(steps, StrStep(OrChildren(mv), Star)))
    ELSE IF StartsWithAt(q, <<"[", "'">>, i) THEN
        LET r == consumeQuotedIdentifier(q, i + 2) IN
        IF r.st = "throw" THEN CRaise
        ELSE IF r.st = "undef" THEN CFail
        ELSE CompileLoop(q, r.i, UNDEFINED, Append(steps, StrStep(OrChildren(mv), r.s)))
    ELSE IF StartsWithAt(q, <<"[", "?", "(">>, i) THEN
        LET not == CharAt(q, i + 3) = "!"
            j == i + 3 + (IF not THEN 1 ELSE 0)
            r == compileAt(q, j)
        IN IF r.st = "throw" THEN CRaise
           ELSE IF r.st = "undef" THEN CFail
           ELSE IF ~StartsWithAt(q, <<")", "]">>, r.i) THEN CFail
           ELSE CompileLoop(q, r.i + 2, UNDEFINED,
                    Append(steps, PlanStep(OrChildren(mv),
                        IF not THEN [r.steps EXCEPT ![Len(r.steps)].not = TRUE]
                        ELSE r.steps)))
    ELSE IF reIndice(q, i) > 0 THEN
        CompileLoop(q, i + reIndice(q, i), UNDEFINED,
            Append(steps, IntStep(OrPublicChildren(mv), parseInt(q, i + 1))))
    ELSE CFail
\* #compile(query, i)
compileAt(q, i) ==
    IF Len(q) = 0 THEN CFail
    ELSE CompileLoop(q,
            IF CharAt(q, i) \in {"$", "@"} THEN i + 1 ELSE i,
            UNDEFINED,
            <<MkStep(IF CharAt(q, i) = "$" THEN ROOT ELSE CURRENT)>>)

(***************************************************************************)
(* The inputs of the model: the query strings and the documents a caller   *)
(* passes to the instance.                                                 *)
(***************************************************************************)
MaxIdx == 4
MaxArr == 3
MaxName == 2

kA == <<"a">>
kB == <<"b">>
kC == <<"c">>
ADoc(v) == Obj(<<KV(kA, v)>>)
ArrOf(n) == Arr([i \in 1..n |-> Num(10 * i)])

\* $.a[k], $.a.[k], $..[k], $..k and $['name']
IndexQuery(k) == <<"$", ".", "a", "[">> \o IntToChars(k) \o <<"]">>
DotIndexQuery(k) == <<"$", ".", "a", ".", "[">> \o IntToChars(k) \o <<"]">>
DescIndexQuery(k) == <<"$", ".", ".", "[">> \o IntToChars(k) \o <<"]">>
DescKeyQuery(c) == <<"$", ".", ".", c>>
QuotedQuery(name) == <<"$", "[", "'">> \o name \o <<"'", "]">>
NameChars == {"a", "\\", "'"}
Names == UNION {[1..m -> NameChars] : m \in 0..MaxName}

IndexQueries ==
    {IndexQuery(k) : k \in (-MaxIdx)..MaxIdx}
    \cup {DotIndexQuery(k) : k \in (-MaxIdx)..MaxIdx}
    \cup {DescIndexQuery(k) : k \in (-MaxIdx)..MaxIdx}
QuotedQueries == {QuotedQuery(nm) : nm \in Names}
MiscQueries == {
    <<>>,
    <<"$">>,
    <<"@">>,
    <<"$", ".", ".">>,
    <<"$", ".", "a">>,
    <<"$", ".", "a", ".">>,
    <<"$", ".", "a", ".", "b">>,
    <<"$", ".", ".", "a">>,
    <<"$", ".", ".", "b">>,
    <<"$", ".", ".", "c">>,
    <<"$", ".", "*">>,
    <<"$", ".", ".", "*">>,
    <<"$", "[", "*", "]">>,
    <<"$", ".", "a", "[", "*", "]">>,
    <<"$", "[", "?", "(", "@", ".", "a", ")", "]">>,
    <<"$", "[", "?", "(", "!", "@", ".", "a", ")", "]">>,
    <<"$", "[", "?", "(", "@", ")", "]">>,
    <<"$", ".", ".", "[", "?", "(", "@", ".", "c", ")", "]">>,
    <<"$", ".", "a", "[", "?", "(", "@", ".", "b", "=", "=", "1", ")", "]", "a">>,
    <<"$", ".", "a", "#", "x">>,
    <<"$", ".", "a", "=", "=", "1", ")", "]", "z", "z">>,
    <<"$", ".", "a", " ", "b">>,
    <<"$", ".", ".", ".", "a">>,
    <<"$", "[", "'", "a">>,
    <<"$", "[">>,
    <<"$", ".", "a", "<", "=", ")", "]">>}
ShortQuoted == {QuotedQuery(nm) : nm \in UNION {[1..m -> NameChars] : m \in 0..1}}
Queries == MiscQueries \cup ShortQuoted

NestedDoc == ADoc(Obj(<<KV(kB, Obj(<<KV(kC, Num(1))>>))>>))
IndexDocs == {ADoc(ArrOf(n)) : n \in 0..MaxArr} \cup {ArrOf(MaxArr)}
MiscDocs == {
    NestedDoc,
    ADoc(Num(1)),
    ADoc(Null),
    Obj(<<KV(kA, Arr(<<ArrOf(2), Obj(<<KV(kC, Num(1))>>)>>)), KV(kC, Obj(<<>>))>>),
    Obj(<<>>),
    Num(7),
    Null}
Docs == MiscDocs

\* Predicate queries $.items[*][?(<body>)] and $.items[*][?(!<body>)], with
\* bodies @.v, @.v OP literal, @.*, @.v[?(@.x)], over documents
\* { items: [ ... ] } of at most MaxItems items.
MaxItems == 2
kItems == <<"i", "t", "e", "m", "s">>
kV == <<"v">>
kW == <<"w">>
kX == <<"x">>
ItemsStar == <<"$", ".", "i", "t", "e", "m", "s", "[", "*", "]">>
PredQuery(body) == ItemsStar \o <<"[", "?", "(">> \o body \o <<")", "]">>
NegPredQuery(body) == ItemsStar \o <<"[", "?", "(", "!">> \o body \o <<")", "]">>
ExistsBody == <<"@", ".", "v">>
WildBody == <<"@", ".", "*">>
NestedBody == <<"@", ".", "v", "[", "?", "(", "@", ".", "x", ")", "]">>
CmpBody(o, text) == ExistsBody \o o \o text
\* $.a OP text )] : a trailing comparison at the top level
TopCmpQuery(o, text) == <<"$", ".", "a">> \o o \o text \o <<")", "]">>
PredOps == {<<"=", "=">>, <<"!", "=">>, <<"<">>, <<"<", "=">>, <<">">>, <<">", "=">>}
StringOps == {<<"^", "=">>, <<"$", "=">>, <<"*", "=">>}
\* literals: their text in the query and the JSON value the text denotes
Lits == {[text |-> <<"2">>, v |-> Num(2)],
         [text |-> <<"\"", "s", "\"">>, v |-> Str(<<"s">>)]}
\* texts that are not JSON
BadTexts == {<<"a", "b", "c">>, <<"0", "1">>}
PlainBodies == {ExistsBody, WildBody, NestedBody}
                  \cup {CmpBody(o, l.text) : o \in PredOps, l \in Lits}
PredQueries ==
    {PredQuery(b) : b \in PlainBodies}
    \cup {NegPredQuery(b) : b \in PlainBodies}
    \cup {PredQuery(CmpBody(o, <<"\"", "s", "\"">>)) : o \in StringOps}
\* comparisons whose literal is malformed
BadQueries ==
    {PredQuery(CmpBody(o, b)) : o \in PredOps \cup StringOps, b \in BadTexts}
    \cup {TopCmpQuery(o, b) : o \in PredOps \cup StringOps, b \in BadTexts}
ItemKinds == {Obj(<<KV(kV, Num(1))>>), Obj(<<KV(kV, Num(2))>>),
              Obj(<<KV(kW, Num(1))>>), Obj(<<KV(kV, Str(<<"s">>))>>),
              Obj(<<KV(kV, Obj(<<KV(kX, Num(1))>>))>>), Null}
ItemsDoc(items) == Obj(<<KV(kItems, Arr(items))>>)
ExampleItems == ItemsDoc(<<Obj(<<KV(kV, Num(1))>>), Obj(<<KV(kV, Num(2))>>),
                           Obj(<<KV(kV, Num(3))>>)>>)
PredDocs ==
    {ItemsDoc(f) : f \in UNION {[1..m -> ItemKinds] : m \in 0..MaxItems}}
    \cup {ExampleItems, ItemsDoc(<<Num(5), Obj(<<KV(kV, Null)>>)>>),
          ADoc(Num(1)), Obj(<<>>)}
OwnKinds == {Obj(<<KV(kV, Num(2))>>), Obj(<<KV(kW, Num(1))>>), Null}
BadDocs ==
    {ItemsDoc(f) : f \in UNION {[1..m -> OwnKinds] : m \in 0..MaxItems}}
    \cup {ADoc(Num(1)), Obj(<<>>)}

\* Wildcard queries $.* and $..* over every document whose root is an object
\* or an array with at most MaxNodes nodes below it.  The j-th key of an
\* object is the j-th letter.
MaxNodes == 3
KeyNames == <<"a", "b", "c", "d", "e", "f", "g", "h">>
MkObj(f) == Obj([j \in 1..Len(f) |-> KV(<<KeyNames[j]>>, f[j])])
Leaves == {Num(1), Null}
RECURSIVE Forests(_)
RECURSIVE Trees(_)
\* the values with exactly k nodes, themselves included
Trees(k) ==
    (IF k = 1 THEN Leaves ELSE {})
    \cup {MkObj(f) : f \in Forests(k - 1)}
    \cup {Arr(f) : f \in Forests(k - 1)}
\* the sequences of values with exactly n nodes in total
Forests(n) ==
    IF n = 0 THEN {<<>>}
    ELSE UNION {{<<t>> \o f : t \in Trees(k), f \in Forests(n - k)} : k \in 1..n}
WildDocs == UNION {Trees(k + 1) : k \in 0..MaxNodes} \ Leaves
ChildWild == <<"$", ".", "*">>
DescWild == <<"$", ".", ".", "*">>
WildQueries == {ChildWild, DescWild}

(***************************************************************************)
(* jsonlPruneFn.  A text is a sequence of characters.  A line that is JSON *)
(* is the serialisation of one of the values of JsonValues, as             *)
(* JSON.stringify writes it or with / escaped, after up to MaxPad spaces;  *)
(* every other line makes JSON.parse raise.                                *)
(***************************************************************************)
NL == "\n"
\* text.split(/\n+/)
RECURSIVE SplitFrom(_, _, _, _)
SplitFrom(text, i, cur, acc) ==
    IF i > Len(text) THEN Append(acc, cur)
    ELSE IF text[i] # NL THEN SplitFrom(text, i + 1, Append(cur, text[i]), acc)
    ELSE IF i < Len(text) /\ text[i + 1] = NL THEN SplitFrom(text, i + 1, cur, acc)
    ELSE SplitFrom(text, i + 1, <<>>, Append(acc, cur))
Split(text) == SplitFrom(text, 1, <<>>, <<>>)
\* linesAfter.join('\n')
RECURSIVE Join(_)
Join(lines) ==
    IF Len(lines) = 0 THEN <<>>
    ELSE IF Len(lines) = 1 THEN lines[1]
    ELSE lines[1] \o <<NL>> \o Join(Tail(lines))

\* JSON.stringify: keys in enumeration order, a removed array slot as null
RECURSIVE JSON_stringify(_)
RECURSIVE StringifyEntries(_, _)
JSON_stringify(v) ==
    CASE v.t = "num" -> IntToChars(v.n)
      [] v.t = "str" -> <<"\"">> \o v.s \o <<"\"">>
      [] v.t = "bool" -> IF v.n = 1 THEN <<"t", "r", "u", "e">>
                         ELSE <<"f", "a", "l", "s", "e">>
      [] v.t = "obj" -> <<"{">> \o StringifyEntries(v, 1) \o <<"}">>
      [] v.t = "arr" -> <<"[">> \o StringifyEntries(v, 1) \o <<"]">>
      [] OTHER -> <<"n", "u", "l", "l">>
StringifyEntries(v, j) ==
    IF j > Len(v.e) THEN <<>>
    ELSE (IF j > 1 THEN <<",">> ELSE <<>>)
         \o (IF v.t = "obj" THEN <<"\"">> \o v.e[j].k \o <<"\"", ":">> ELSE <<>>)
         \o JSON_stringify(v.e[j].v)
         \o StringifyEntries(v, j + 1)
\* .replace(/\//g, '\\/')
RECURSIVE EscapeSlashes(_)
EscapeSlashes(s) ==
    IF Len(s) = 0 THEN <<>>
    ELSE (IF s[1] = "/" THEN <<"\\", "/">> ELSE <<s[1]>>) \o EscapeSlashes(Tail(s))

MaxPad == 1
Pad(p) == [i \in 1..p |-> " "]
\* the values whose serialisations are the JSON lines of the texts
JsonValues ==
    {Obj(<<KV(kA, Num(1))>>),
     Obj(<<KV(kA, Obj(<<KV(kA, Num(1))>>))>>),
     Obj(<<KV(kA, Num(1)), KV(kB, Str(<<"/">>))>>),
     Obj(<<KV(kB, Num(2))>>),
     Obj(<<KV(kA, Arr(<<Obj(<<KV(kA, Num(1))>>), Num(2)>>))>>),
     Arr(<<Obj(<<KV(kA, Num(1))>>), Num(2)>>),
     Arr(<<>>), Obj(<<>>), Num(1), Null, Str(<<"a">>)}
\* the texts of v: as written by JSON.stringify, or with / escaped
TextsOf(v) ==
    {Pad(p) \o JSON_stringify(v) : p \in 0..MaxPad}
    \cup {Pad(p) \o EscapeSlashes(JSON_stringify(v)) : p \in 0..MaxPad}
\* safe.JSON_parse(lineBefore); Thrown when the line is not JSON
JSON_parse(line) ==
    IF \E v \in JsonValues : line \in TextsOf(v)
    THEN CHOOSE v \in JsonValues : line \in TextsOf(v)
    ELSE Thrown

\* delete obj[key] in module (strict) code: the key of an object is removed,
\* the slot of an array element becomes a hole, a key that is not owned is
\* left alone; undefined and null have no properties and the length of an
\* array or a character of a string cannot be deleted: TypeError
DeleteKey(o, pe) ==
    LET ks == KeyChars(pe) IN
    IF o.t \in {"null", "undef", "throw"} THEN Thrown
    ELSE IF pe.t \in {"u", "x"} THEN o
    ELSE IF o.t = "obj" THEN [o EXCEPT !.e = SelectSeq(o.e, LAMBDA en : en.k # ks)]
    ELSE IF o.t = "arr" THEN
        IF ks = LengthKey THEN Thrown
        ELSE IF IsCanonIdx(ks) /\ CharsToNat(ks) < Len(o.e)
             THEN [o EXCEPT !.e[CharsToNat(ks) + 1] = Hole]
        ELSE o
    ELSE IF o.t = "str" THEN
        IF ks = LengthKey \/ (IsCanonIdx(ks) /\ CharsToNat(ks) < Len(o.s))
        THEN Thrown ELSE o
    ELSE o
\* o after its property pe was replaced by the mutated child w
SetProp(o, pe, w) ==
    LET ks == KeyChars(pe) IN
    IF o.t = "obj" /\ EntryIdx(o, ks) # 0
    THEN [o EXCEPT !.e[EntryIdx(o, ks)].v = w]
    ELSE IF o.t = "arr" /\ IsCanonIdx(ks) /\ CharsToNat(ks) < Len(o.e)
    THEN [o EXCEPT !.e[CharsToNat(ks) + 1].v = w]
    ELSE o
\* the line object after delete obj[key], obj and key being what resolvePath
\* gives for path; Thrown when the delete raises
RECURSIVE DeleteFrom(_, _, _)
DeleteFrom(v, path, i) ==
    IF i >= Len(path)
    THEN DeleteKey(v, path[i])
    ELSE LET w == DeleteFrom(GetProp(v, path[i]), path, i + 1)
         IN IF w = Thrown THEN Thrown ELSE SetProp(v, path[i], w)
DeleteAt(rt, path) ==
    IF Len(path) = 0 THEN DeleteKey(Undef, PUndef) ELSE DeleteFrom(rt, path, 1)

\* for ( const path of paths ) { resolvePath(path); delete obj[key]; }
RECURSIVE PruneLoop(_, _, _)
PruneLoop(cur, paths, i) ==
    IF i > Len(paths) THEN [raised |-> FALSE, obj |-> cur]
    ELSE IF resolvePath(cur, paths[i]).value.t = "throw"
         THEN [raised |-> TRUE, obj |-> cur]
    ELSE IF DeleteAt(cur, paths[i]) = Thrown
         THEN [raised |-> TRUE, obj |-> cur]
    ELSE PruneLoop(DeleteAt(cur, paths[i]), paths, i + 1)

\* jsonp.evaluate(obj) on the plan the instance holds
EvaluateWith(plan, obj) ==
    IF plan.has THEN evaluateSteps(obj, plan.steps, <<>>) ELSE <<>>
\* One line of the loop over linesBefore.  st holds linesAfter, this.root
\* of jsonp, the paths of the last evaluate and whether the function raised.
\* the line after its paths were deleted, or the exception of the loop
PruneDone(st, paths, done) ==
    IF done.raised
    THEN [st EXCEPT !.raised = TRUE, !.root = done.obj, !.paths = paths]
    ELSE [st EXCEPT !.lines = Append(st.lines, EscapeSlashes(JSON_stringify(done.obj))),
                    !.root = done.obj, !.paths = paths]
\* const paths = jsonp.evaluate(obj), and what follows it
PrunePaths(line, st, obj, seen, paths) ==
    IF HasThrow(paths)
    THEN [st EXCEPT !.raised = TRUE, !.root = seen, !.paths = <<>>]
    ELSE IF Len(paths) = 0
    THEN [st EXCEPT !.lines = Append(st.lines, line), !.root = seen, !.paths = paths]
    ELSE PruneDone(st, paths, PruneLoop(obj, paths, 1))
\* obj = safe.JSON_parse(lineBefore), and what follows it
PruneObj(plan, line, st, obj) ==
    IF ~IsContainer(obj)
    THEN [st EXCEPT !.lines = Append(st.lines, line)]
    ELSE PrunePaths(line, st, obj, IF plan.has THEN obj ELSE st.root,
                    EvaluateWith(plan, obj))
RECURSIVE PruneLines(_, _, _, _)
PruneLines(plan, lines, i, st) ==
    IF i > Len(lines) \/ st.raised THEN st
    ELSE PruneLines(plan, lines, i + 1,
                    PruneObj(plan, lines[i], st, JSON_parse(lines[i])))
\* what jsonlPruneFn returns and leaves behind
PruneOut(st) ==
    [raised |-> st.raised, root |-> st.root, paths |-> st.paths,
     text |-> IF st.raised THEN <<>> ELSE Join(st.lines)]
\* jsonlPruneFn(jsonp, text), jsonp holding plan and this.root = rt
jsonlPruneFn(plan, rt, text) ==
    PruneOut(PruneLines(plan, Split(text), 1,
                 [raised |-> FALSE, lines |-> <<>>, root |-> rt, paths |-> <<>>]))

(***************************************************************************)
(* The inputs of jsonlPruneFn: queries and texts of up to MaxLines lines,  *)
(* separated by one or two newlines.                                       *)
(***************************************************************************)
MaxLines == 2
RootPredQuery == <<"$", "[", "?", "(", "@", ".", "a", ")", "]">>
PruneQueries ==
    {DescKeyQuery("a"), RootPredQuery,
     <<"$", ".", "a">>, <<"$", ".", "b">>, <<"$", ".", "a", "[", "*", "]">>,
     <<"$">>}
PruneLinePool ==
    {JSON_stringify(v) : v \in JsonValues}
    \cup {Pad(MaxPad) \o JSON_stringify(Obj(<<KV(kA, Num(1))>>))}
    \cup {<<>>, <<"x">>}
RECURSIVE TextsOfLines(_)
TextsOfLines(n) ==
    IF n = 1 THEN PruneLinePool
    ELSE {t \o sep \o l : t \in TextsOfLines(n - 1),
                          sep \in {<<NL>>, <<NL, NL>>}, l \in PruneLinePool}
PruneTexts == UNION {TextsOfLines(n) : n \in 1..MaxLines}

(***************************************************************************)
(* jsonlPruneXhrResponse: the response getter of the patched               *)
(* XMLHttpRequest.  A needle is a property name and the pattern its value  *)
(* must hold; xhrDetails is a record of what the getter keeps per          *)
(* instance.                                                               *)
(***************************************************************************)
\* obj[prop] of { method, url }
DetailsProp(details, prop) == IF prop = "method" THEN details.method ELSE details.url
\* matchObjectPropertiesFn(propNeedles, xhrDetails): every needle's pattern
\* is found in the value of its property
matchObjectPropertiesFn(needles, details) ==
    \A nd \in needles : Includes(DetailsProp(details, nd.prop), nd.pattern)
\* const matched = propNeedles.size === 0 || matchObjectPropertiesFn(...)
Matched(needles, details) ==
    needles = {} \/ matchObjectPropertiesFn(needles, details)
\* xhrDetails.lastResponseLength before it is first set, and the length of
\* an inner response that is not a string: undefined
NoLength == -1
\* the length used to detect that the inner response changed
ResponseLength(innerResponse) ==
    IF innerResponse.t = "str" THEN Len(innerResponse.s) ELSE NoLength
\* if ( xhrDetails.lastResponseLength !== responseLength ) { ... }
Revalidated(details, innerResponse) ==
    IF details.lastResponseLength # ResponseLength(innerResponse)
    THEN [details EXCEPT !.response = Undef,
                         !.lastResponseLength = ResponseLength(innerResponse)]
    ELSE details
\* the end of the getter: the string response goes through jsonlPruneFn
PrunedResponse(details, pruned) ==
    IF pruned.raised
    THEN [raised |-> TRUE, value |-> Undef, details |-> details,
          root |-> pruned.root, paths |-> pruned.paths]
    ELSE [raised |-> FALSE, value |-> Str(pruned.text),
          details |-> [details EXCEPT !.response = Str(pruned.text)],
          root |-> pruned.root, paths |-> pruned.paths]
\* the getter once xhrDetails is known and revalidated
CachedOrPruned(details, innerResponse, plan, rt) ==
    IF details.response # Undef
    THEN [raised |-> FALSE, value |-> details.response, details |-> details,
          root |-> rt, paths |-> <<>>]
    ELSE IF innerResponse.t # "str"
    THEN [raised |-> FALSE, value |-> innerResponse,
          details |-> [details EXCEPT !.response = innerResponse],
          root |-> rt, paths |-> <<>>]
    ELSE PrunedResponse(details, jsonlPruneFn(plan, rt, innerResponse.s))
\* get response()
getResponse(details, innerResponse, plan, rt) ==
    IF ~details.has
    THEN [raised |-> FALSE, value |-> innerResponse, details |-> details,
          root |-> rt, paths |-> <<>>]
    ELSE CachedOrPruned(Revalidated(details, innerResponse), innerResponse, plan, rt)

\* the inputs: methods, urls, needles, queries and response bodies
Methods == {<<"G", "E", "T">>, <<"P", "O", "S", "T">>}
Urls == {<<"/", "a">>, <<"/", "b">>}
Needle(prop, pattern) == [prop |-> prop, pattern |-> pattern]
NeedleSets ==
    {{}, {Needle("url", <<"/", "a">>)},
     {Needle("method", <<"P", "O", "S", "T">>), Needle("url", <<"a">>)}}
XhrQueries == {<<"$", ".", "a">>, DescKeyQuery("b")}
MaxBodyLines == 2
RECURSIVE BodiesOfLines(_)
BodiesOfLines(n) ==
    IF n = 1 THEN {JSON_stringify(Obj(<<KV(kA, Num(1))>>)),
                   JSON_stringify(Obj(<<KV(kB, Num(2))>>)), <<"x">>}
    ELSE {t \o <<NL>> \o l : t \in BodiesOfLines(n - 1), l \in BodiesOfLines(1)}
XhrBodies == UNION {BodiesOfLines(n) : n \in 1..MaxBodyLines}

(***************************************************************************)
(* One JSONPath instance and its caller.                                   *)
(*   qs, ds    the queries and documents the caller passes (fixed)         *)
(*   compiled  #compiled: has = FALSE for undefined                        *)
(*   root      this.root                                                   *)
(*   op        the last call: "new", "create", "compile", "evaluate",      *)
(*             "resolvePath", "jsonlPruneFn", "open", "response", or       *)
(*             "receive" when the network delivered a response body        *)
(*   query     the argument of the last create / compile                   *)
(*   raised    the last call raised an exception                           *)
(*   ret       what the last compile returned                              *)
(*   result    what the last evaluate returned                             *)
(*   pick      the position in result of the path last resolved            *)
(*   resolved  what the last resolvePath returned                          *)
(* The scriptlets that hold the instance as jsonp:                         *)
(*   ts           the texts that reach jsonlPruneFn (fixed)                *)
(*   outer        what the last jsonlPruneFn / response getter returned    *)
(*   propNeedles  the needles parsed from propsToMatch (fixed)             *)
(*   opened       the method and url of the last open() on the one         *)
(*                XMLHttpRequest instance                                  *)
(*   inner        super.response of that instance                          *)
(*   xhrDetails   xhrInstances.get(this): has = FALSE for undefined        *)
(***************************************************************************)
VARIABLES qs, ds, compiled, root, op, query, raised, ret, result, pick, resolved,
          ts, outer, propNeedles, opened, inner, xhrDetails
vars == <<qs, ds, compiled, root, op, query, raised, ret, result, pick, resolved,
          ts, outer, propNeedles, opened, inner, xhrDetails>>
\* the state of the scriptlets
svars == <<ts, outer, propNeedles, opened, inner, xhrDetails>>

NoPlan == [has |-> FALSE, steps |-> <<>>, i |-> 0]
NoResolved == [obj |-> Undef, key |-> PUndef, value |-> Undef]
NoOpen == [has |-> FALSE, method |-> <<>>, url |-> <<>>]
NoDetails == [has |-> FALSE, method |-> <<>>, url |-> <<>>,
              response |-> Undef, lastResponseLength |-> NoLength]
\* a scriptlet that is handed the texts T and was given the needles N, and
\* the XMLHttpRequest instance before its first open()
Installed(T, N) ==
    /\ ts = T
    /\ outer = Undef
    /\ propNeedles = N
    /\ opened = NoOpen
    /\ inner = Str(<<>>)
    /\ xhrDetails = NoDetails
\* no scriptlet is installed: no text, no needle, no request
NoScriptlet == Installed({}, {})

\* new JSONPath(), for a caller that passes the queries Q and documents D
FreshJsonp(Q, D) ==
    /\ qs = Q
    /\ ds = D
    /\ compiled = NoPlan
    /\ root = Undef
    /\ op = "new"
    /\ query = <<>>
    /\ raised = FALSE
    /\ ret = 0
    /\ result = <<>>
    /\ pick = 0
    /\ resolved = NoResolved
Fresh(Q, D) == FreshJsonp(Q, D) /\ NoScriptlet
Init == Fresh(Queries, Docs)
\* the same instance, for a caller that passes one query and one document
InitIndex == \E q \in IndexQueries \cup {DescKeyQuery(c) : c \in {"a", "b", "c"}} :
             \E d \in IndexDocs \cup MiscDocs : Fresh({q}, {d})
InitQuoted == \E q \in QuotedQueries :
              \E d \in {ADoc(Num(1)), Obj(<<KV(<<"'">>, Num(1)), KV(<<"\\">>, Num(2))>>)} :
                  Fresh({q}, {d})
InitPred ==
    \/ \E q \in PredQueries : \E d \in PredDocs : Fresh({q}, {d})
    \/ \E q \in BadQueries : \E d \in BadDocs : Fresh({q}, {d})
InitWild == \E q \in WildQueries : \E d \in WildDocs : Fresh({q}, {d})
\* jsonp and one text for jsonlPruneFn
InitPrune == \E q \in PruneQueries : \E t \in PruneTexts :
                 FreshJsonp({q}, {}) /\ Installed({t}, {})

\* create() that raised returned no instance to call anything on
Alive == ~(op = "create" /\ raised)

\* this.#compiled = this.#compile(query, 0), on an instance holding plan old:
\* a raising #compile leaves the field as it was
Assigned(old, r) ==
    IF r.st = "throw" THEN old
    ELSE IF r.st = "ok" THEN [has |-> TRUE, steps |-> r.steps, i |-> r.i]
    ELSE NoPlan

Compile(q) ==
    /\ Alive
    /\ op' = "compile"
    /\ query' = q
    /\ \E c \in {compileAt(q, 0)} :
          /\ raised' = (c.st = "throw")
          /\ compiled' = Assigned(compiled, c)
    /\ ret' = IF raised' THEN 0 ELSE compiled'.i
    /\ result' = <<>>
    /\ pick' = 0
    /\ resolved' = NoResolved
    /\ UNCHANGED <<qs, ds, root>>
    /\ UNCHANGED svars

Create(q) ==
    /\ op' = "create"
    /\ query' = q
    /\ \E c \in {compileAt(q, 0)} :
          /\ raised' = (c.st = "throw")
          /\ compiled' = Assigned(NoPlan, c)
    /\ root' = Undef
    /\ ret' = 0
    /\ result' = <<>>
    /\ pick' = 0
    /\ resolved' = NoResolved
    /\ UNCHANGED <<qs, ds>>
    /\ UNCHANGED svars

\* the value evaluate(r) computes: no plan, no paths
EvalOut(r) ==
    IF compiled.has THEN evaluateSteps(r, compiled.steps, <<>>) ELSE <<>>
Evaluate(r) ==
    /\ Alive
    /\ op' = "evaluate"
    /\ root' = IF compiled.has THEN r ELSE root
    /\ \E out \in {EvalOut(r)} :
          /\ raised' = HasThrow(out)
          /\ result' = IF HasThrow(out) THEN <<>> ELSE out
    /\ pick' = 0
    /\ resolved' = NoResolved
    /\ UNCHANGED <<qs, ds, compiled, query, ret>>
    /\ UNCHANGED svars

\* the caller resolves the k-th path evaluate returned
ResolvePath(k) ==
    /\ op \in {"evaluate", "resolvePath"}
    /\ k \in 1..Len(result)
    /\ op' = "resolvePath"
    /\ pick' = k
    /\ \E r \in {resolvePath(root, result[k])} :
          /\ raised' = (r.value.t = "throw")
          /\ resolved' = IF r.value.t = "throw" THEN NoResolved ELSE r
    /\ UNCHANGED <<qs, ds, compiled, root, query, ret, result>>
    /\ UNCHANGED svars

Next ==
    \/ \E q \in qs : Create(q)
    \/ \E q \in qs : Compile(q)
    \/ \E r \in ds : Evaluate(r)
    \/ \E k \in 1..Len(result) : ResolvePath(k)

\* jsonlPruneFn(jsonp, text) on the instance
JsonlPrune(text) ==
    /\ Alive
    /\ op' = "jsonlPruneFn"
    /\ \E r \in {jsonlPruneFn(compiled, root, text)} :
          /\ raised' = r.raised
          /\ root' = r.root
          /\ result' = r.paths
          /\ outer' = IF r.raised THEN Undef ELSE Str(r.text)
    /\ pick' = 0
    /\ resolved' = NoResolved
    /\ UNCHANGED <<qs, ds, compiled, query, ret>>
    /\ UNCHANGED <<ts, propNeedles, opened, inner, xhrDetails>>

\* a caller that creates jsonp from a query and prunes texts with it
NextPrune ==
    \/ \E q \in qs : Create(q)
    \/ \E t \in ts : JsonlPrune(t)

\* jsonlPruneXhrResponse(jsonq, propsToMatch) was called: jsonp is created,
\* the needles are parsed, the class is patched; one instance, not yet opened
InitXhr == \E q \in XhrQueries : \E N \in NeedleSets :
    /\ qs = {q}
    /\ ds = {}
    /\ compiled = Assigned(NoPlan, compileAt(q, 0))
    /\ root = Undef
    /\ op = "create"
    /\ query = q
    /\ raised = FALSE
    /\ ret = 0
    /\ result = <<>>
    /\ pick = 0
    /\ resolved = NoResolved
    /\ Installed(XhrBodies, N)

\* open(method, url) on the instance
Open(method, url) ==
    /\ op' = "open"
    /\ raised' = FALSE
    /\ xhrDetails' = IF Matched(propNeedles, [method |-> method, url |-> url])
                     THEN [NoDetails EXCEPT !.has = TRUE, !.method = method, !.url = url]
                     ELSE xhrDetails
    /\ opened' = [has |-> TRUE, method |-> method, url |-> url]
    /\ inner' = Str(<<>>)
    /\ outer' = Undef
    /\ UNCHANGED <<qs, ds, compiled, root, query, ret, result, pick, resolved>>
    /\ UNCHANGED <<ts, propNeedles>>

\* the request that is open makes progress: super.response becomes body
Receive(body) ==
    /\ opened.has
    /\ op' = "receive"
    /\ raised' = FALSE
    /\ inner' = body
    /\ outer' = Undef
    /\ UNCHANGED <<qs, ds, compiled, root, query, ret, result, pick, resolved>>
    /\ UNCHANGED <<ts, propNeedles, opened, xhrDetails>>

\* the page reads xhr.response
GetResponse ==
    /\ op' = "response"
    /\ \E g \in {getResponse(xhrDetails, inner, compiled, root)} :
          /\ raised' = g.raised
          /\ outer' = g.value
          /\ xhrDetails' = g.details
          /\ root' = g.root
          /\ result' = g.paths
    /\ pick' = 0
    /\ resolved' = NoResolved
    /\ UNCHANGED <<qs, ds, compiled, query, ret>>
    /\ UNCHANGED <<ts, propNeedles, opened, inner>>

\* one XMLHttpRequest instance of a page under jsonlPruneXhrResponse
NextXhr ==
    \/ \E m \in Methods : \E u \in Urls : Open(m, u)
    \/ \E t \in ts : Receive(Str(t))
    \/ Receive(Null)
    \/ GetResponse

Spec == Init /\ [][Next]_vars
SpecIndex == InitIndex /\ [][Next]_vars
SpecQuoted == InitQuoted /\ [][Next]_vars
SpecPred == InitPred /\ [][Next]_vars
SpecWild == InitWild /\ [][Next]_vars
SpecPrune == InitPrune /\ [][NextPrune]_vars
SpecXhr == InitXhr /\ [][NextXhr]_vars

(***************************************************************************)
(* Properties.                                                             *)
(***************************************************************************)
Range(f) == {f[i] : i \in DOMAIN f}
IsCompileCall == op \in {"create", "compile"}
\* the query passed to the last create / compile is a compile failure
CompileFails(q) == compileAt(q, 0).st # "ok"
\* evaluate(compile(q), rt), computed on its own
EvalQuery(q, rt) ==
    IF compileAt(q, 0).st = "ok"
    THEN evaluateSteps(rt, compileAt(q, 0).steps, <<>>)
    ELSE <<>>

\* C1: a compile failure is never raised as an exception: create / compile
\* return normally, a failing compile leaves the instance with no plan and
\* returns 0, and every evaluate after it returns no path and does not
\* raise, also when the instance held a plan before.
C1_CompileFailureNeverRaises ==
    /\ IsCompileCall => ~raised
    /\ (IsCompileCall /\ CompileFails(query)) => (~compiled.has /\ ret = 0)
    /\ (op = "evaluate" /\ CompileFails(query)) => (result = <<>> /\ ~raised)

\* C2: no partial plan: whenever compile produces a plan, the offset it
\* consumed is the length of the query string.
C2_PlanConsumesWholeQuery ==
    (IsCompileCall /\ ~raised /\ compiled.has) => compiled.i = Len(query)

\* C3: $.a[k] on a root whose key a holds an array of length n returns
\* exactly the path <<a, i>>, i = k for k >= 0 and n + k for k < 0, when
\* 0 <= i < n, and no path otherwise; no path when a holds a non-array.
C3_Index(k, n) == IF k >= 0 THEN k ELSE n + k
C3_Expected(k, a) ==
    IF a.t = "arr" /\ C3_Index(k, Len(a.e)) >= 0 /\ C3_Index(k, Len(a.e)) < Len(a.e)
    THEN << <<PK(kA), PI(C3_Index(k, Len(a.e)))>> >>
    ELSE <<>>
C3_BracketIndex ==
    \A k \in (-MaxIdx)..MaxIdx :
        (op = "evaluate" /\ query = IndexQuery(k) /\ root.t = "obj"
            /\ HasOwn(root, PK(kA)))
        => (~raised /\ result = C3_Expected(k, GetProp(root, PK(kA))))

\* C6: $..k and $..[n] return P ++ path ++ <<key>> for every container at or
\* below the candidate P (here the root) that owns the key, and nothing else,
\* whatever the shape of the root.
ChildKey(v, j) == IF v.t = "arr" THEN PI(j - 1) ELSE PK(v.e[j].k)
RECURSIVE OwnersFrom(_, _, _)
RECURSIVE OwnersBelow(_, _, _)
\* the paths of the containers at or below v (at path pfx) that own key
OwnersBelow(v, pfx, key) ==
    IF ~IsContainer(v) THEN {}
    ELSE (IF HasOwn(v, key) THEN {pfx} ELSE {}) \cup OwnersFrom(v, pfx, key)
OwnersFrom(v, pfx, key) ==
    UNION {OwnersBelow(v.e[j].v, Append(pfx, ChildKey(v, j)), key) : j \in 1..Len(v.e)}
C6_Expected(rt, key) == {Append(p, key) : p \in OwnersBelow(rt, <<>>, key)}
C6_Holds(key) ==
    /\ ~raised
    /\ Range(result) = C6_Expected(root, key)
    /\ Len(result) = Cardinality(C6_Expected(root, key))
C6_DescendantKey ==
    /\ \A c \in {"a", "b", "c"} :
          (op = "evaluate" /\ query = DescKeyQuery(c) /\ IsContainer(root))
          => C6_Holds(PK(<<c>>))
    /\ \A n \in 0..MaxIdx :
          (op = "evaluate" /\ query = DescIndexQuery(n) /\ IsContainer(root))
          => C6_Holds(PI(n))

\* C7: every path evaluate returned resolves, without raising, to a defined
\* container that owns the key, and to the value of the node the path
\* leads to; no returned path resolves to no container and no key.
RECURSIVE NodeAt(_, _)
NodeAt(v, path) ==
    IF Len(path) = 0 THEN v
    ELSE IF ~IsContainer(v) THEN Undef
    ELSE IF \E j \in 1..Len(v.e) : ChildKey(v, j) = Head(path)
         THEN NodeAt(v.e[CHOOSE j \in 1..Len(v.e) : ChildKey(v, j) = Head(path)].v,
                     Tail(path))
    ELSE Undef
C7_PathsResolve ==
    op = "resolvePath" =>
        /\ ~raised
        /\ IsContainer(resolved.obj)
        /\ HasOwn(resolved.obj, resolved.key)
        /\ resolved.value = NodeAt(root, result[pick])

\* C9: compiling $['<name>'] emits a step whose key is the decoded name: a
\* backslash followed by ' or \ gives that one character, a backslash
\* followed by another character stays with that character, every other
\* character appears once and in order.
RECURSIVE DecodeName(_)
DecodeName(nm) ==
    IF Len(nm) = 0 THEN <<>>
    ELSE IF nm[1] = "\\" /\ Len(nm) >= 2 THEN
        (IF nm[2] \in {"'", "\\"} THEN <<nm[2]>> ELSE <<nm[1], nm[2]>>)
        \o DecodeName(SubSeq(nm, 3, Len(nm)))
    ELSE <<nm[1]>> \o DecodeName(Tail(nm))
\* the name is the text of a quoted key: every ' in it is escaped and no
\* backslash escapes the closing quote
RECURSIVE WellEscaped(_)
WellEscaped(nm) ==
    IF Len(nm) = 0 THEN TRUE
    ELSE IF nm[1] = "\\" THEN Len(nm) >= 2 /\ WellEscaped(SubSeq(nm, 3, Len(nm)))
    ELSE nm[1] # "'" /\ WellEscaped(Tail(nm))
C9_QuotedKeyDecoded ==
    \A nm \in Names :
        (IsCompileCall /\ query = QuotedQuery(nm) /\ WellEscaped(nm))
        => /\ ~raised
           /\ compiled.has
           /\ Len(compiled.steps) = 2
           /\ compiled.steps[2].kt = "str"
           /\ compiled.steps[2].ks = DecodeName(nm)

\* the items of a document { items: [ ... ] } and the path of the j-th
IsItemsDoc(rt) ==
    rt.t = "obj" /\ HasOwn(rt, PK(kItems)) /\ GetProp(rt, PK(kItems)).t = "arr"
ItemsOf(rt) == GetProp(rt, PK(kItems)).e
ItemPath(j) == <<PK(kItems), PI(j - 1)>>
\* the node is an object holding key k
OwnsKey(node, k) == node.t = "obj" /\ \E j \in 1..Len(node.e) : node.e[j].k = k
ValueOf(node, k) == node.e[CHOOSE j \in 1..Len(node.e) : node.e[j].k = k].v
\* value OP lit, as JavaScript computes it
CmpHolds(o, v, lit) ==
    CASE o = <<"=", "=">> -> StrictEq(v, lit)
      [] o = <<"!", "=">> -> ~StrictEq(v, lit)
      [] o = <<"<">> -> JsLt(v, lit)
      [] o = <<"<", "=">> -> JsLe(v, lit)
      [] o = <<">">> -> JsGt(v, lit)
      [] o = <<">", "=">> -> JsGe(v, lit)
\* the paths of the items that satisfy Keep(item), in item order
ItemsWhere(items, Keeps(_)) ==
    LET kept == SelectSeq([j \in 1..Len(items) |-> j], LAMBDA j : Keeps(items[j].v))
    IN [i \in 1..Len(kept) |-> ItemPath(kept[i])]

\* C4: $.items[*][?(@.v OP lit)], OP one of == != < <= > >=, on a list of
\* non-array items returns exactly the paths of the items that own v and
\* whose v satisfies value OP lit, each once and in item order; an item
\* that does not own v is never returned, whatever the operator.
C4_Expected(rt, o, lit) ==
    LET Keeps(node) == OwnsKey(node, kV) /\ CmpHolds(o, ValueOf(node, kV), lit)
    IN ItemsWhere(ItemsOf(rt), Keeps)
C4_ComparisonFilter ==
    \A o \in PredOps : \A l \in Lits :
        (op = "evaluate" /\ query = PredQuery(CmpBody(o, l.text)) /\ IsItemsDoc(root))
        => (~raised /\ result = C4_Expected(root, o, l.v))
\* the spec's example: items with v 1, 2, 3 under @.v>=2
C4_Witness ==
    /\ op = "evaluate"
    /\ query = PredQuery(CmpBody(<<">", "=">>, <<"2">>))
    /\ root = ExampleItems
    /\ result = <<ItemPath(2), ItemPath(3)>>

\* C5: the paths of ...[?(!q)] and of ...[?(q)] are disjoint and together
\* are exactly the candidates the predicate step tests, none twice.
C5_Universe(rt) ==
    {ItemPath(j) : j \in {i \in 1..Len(ItemsOf(rt)) :
                            ItemsOf(rt)[i].v.t \notin {"arr", "null"}}}
C5_NegationComplement ==
    \A b \in PlainBodies :
        (op = "evaluate" /\ query = NegPredQuery(b) /\ IsItemsDoc(root))
        => /\ ~raised
           /\ Range(result) \cap Range(EvalQuery(PredQuery(b), root)) = {}
           /\ Range(result) \cup Range(EvalQuery(PredQuery(b), root)) = C5_Universe(root)
           /\ Len(result) + Len(EvalQuery(PredQuery(b), root))
                = Cardinality(C5_Universe(root))

\* C10: a comparison OP text )] whose text is not JSON still compiles; the
\* step has no operator and no right-hand value, the (sub)plan ends at the
\* )], and the step is an existence check: a candidate is kept iff its
\* container owns the key.
C10_Downgraded(step) ==
    /\ step.kt = "str"
    /\ step.op = <<>>
    /\ step.rval = Undef
C10_Nested(o, b) ==
    (query = PredQuery(CmpBody(o, b))) =>
        /\ IsCompileCall =>
              /\ ~raised
              /\ compiled.has
              /\ compiled.i = Len(query)
              /\ Len(compiled.steps) = 4
              /\ compiled.steps[4].steps = <<MkStep(CURRENT), StrStep(CHILDREN, kV)>>
              /\ C10_Downgraded(compiled.steps[4].steps[2])
        /\ (op = "evaluate" /\ IsItemsDoc(root)) =>
              /\ ~raised
              /\ LET Keeps(node) == OwnsKey(node, kV)
                 IN result = ItemsWhere(ItemsOf(root), Keeps)
C10_Top(o, b) ==
    (query = TopCmpQuery(o, b)) =>
        /\ IsCompileCall =>
              /\ ~raised
              /\ compiled.has
              /\ compiled.i = Len(query) - 2
              /\ compiled.steps = <<MkStep(ROOT), StrStep(CHILDREN, kA)>>
              /\ C10_Downgraded(compiled.steps[2])
        /\ (op = "evaluate" /\ IsContainer(root)) =>
              /\ ~raised
              /\ result = IF OwnsKey(root, kA) THEN << <<PK(kA)>> >> ELSE <<>>
C10_MalformedLiteralDowngrades ==
    \A o \in PredOps \cup StringOps : \A b \in BadTexts :
        C10_Nested(o, b) /\ C10_Top(o, b)
\* an item without v is dropped and the items with v are kept under ==abc
C10_Witness ==
    /\ op = "evaluate"
    /\ query = PredQuery(CmpBody(<<"=", "=">>, <<"a", "b", "c">>))
    /\ root = ItemsDoc(<<Obj(<<KV(kW, Num(1))>>), Obj(<<KV(kV, Num(2))>>)>>)
    /\ result = <<ItemPath(2)>>

\* C8: $.* on a root object returns one single-element path per key, in key
\* order; $..* returns one path per descendant of the root, each node before
\* its own descendants, keys in document order and elements in index order,
\* every path resolving to the node it was enumerated for, wherever the
\* document holds empty objects or arrays.
Prefixed(pe, list) == [j \in 1..Len(list) |->
                         [path |-> <<pe>> \o list[j].path, node |-> list[j].node]]
RECURSIVE PreOrder(_)
RECURSIVE PreOrderFrom(_, _)
\* the descendants of v in pre-order: their paths from v and the nodes
PreOrder(v) == IF IsContainer(v) THEN PreOrderFrom(v, 1) ELSE <<>>
PreOrderFrom(v, j) ==
    IF j > Len(v.e) THEN <<>>
    ELSE <<[path |-> <<ChildKey(v, j)>>, node |-> v.e[j].v]>>
         \o Prefixed(ChildKey(v, j), PreOrder(v.e[j].v))
         \o PreOrderFrom(v, j + 1)
C8_WildcardPreOrder ==
    /\ (op = "evaluate" /\ query = ChildWild /\ root.t = "obj") =>
          /\ ~raised
          /\ result = [j \in 1..Len(root.e) |-> <<PK(root.e[j].k)>>]
    /\ (op = "evaluate" /\ query = DescWild /\ IsContainer(root)) =>
          /\ ~raised
          /\ Len(result) = Len(PreOrder(root))
          /\ \A j \in 1..Len(result) :
                /\ result[j] = PreOrder(root)[j].path
                /\ resolvePath(root, result[j]).value = PreOrder(root)[j].node
\* an array whose first element is an empty array inside an array, then a
\* second element: the enumeration comes back up two levels
C8_Witness ==
    /\ op = "evaluate"
    /\ query = DescWild
    /\ root = Arr(<<Arr(<<Arr(<<>>)>>), Num(1)>>)
    /\ result = << <<PI(0)>>, <<PI(0), PI(0)>>, <<PI(1)>> >>

\* C11: jsonlPruneFn never raises while it resolves and deletes the matched
\* paths of a line in the order evaluate returned them, also when the paths
\* hold a path and an extension of it or the zero-length root path; after
\* the loop no matched key is owned by its container.
C11_PruneNeverFails ==
    op = "jsonlPruneFn" =>
        /\ ~raised
        /\ \A k \in 1..Len(result) :
              /\ Len(result[k]) > 0
              /\ ~HasOwn(resolvePath(root, result[k]).obj,
                         resolvePath(root, result[k]).key)

\* C12: with needles, the response getter returns the inner response as it
\* is whenever the last open() on the instance did not match them; a pruned
\* or cached value is returned only after a last open() that matched.
LastOpenMatched == opened.has /\ Matched(propNeedles, opened)
C12_PruningFollowsLatestOpen ==
    (op = "response" /\ propNeedles # {} /\ ~LastOpenMatched)
    => (~raised /\ outer = inner)

====
